---------------------------- MODULE Spec2Model ----------------------------
(***************************************************************************)
(* Model of the RAG chatbot (src/chatbotapk.js, src/chatbotapk2.js,        *)
(* src/gitchatbot.js): the agent/action state graph compiled with an       *)
(* in-memory MemorySaver, the stream aggregator (getAnswer / chat), the    *)
(* HTTP handler POST /chat and the interactive readline session.           *)
(*                                                                         *)
(* One request (HTTP) or input line (interactive) is one request id r.     *)
(* A node step (model call or retrieval call, reducer, checkpoint write,   *)
(* router, and the consumer's loop body for the emitted chunk) is one      *)
(* action: everything in it but the checkpoint write is local to the       *)
(* execution, and the checkpoint write happens when the step completes.    *)
(***************************************************************************)
EXTENDS Naturals, Sequences, FiniteSets

(* ------------------------------ bounds -------------------------------- *)
\* Number of requests / input lines submitted in one behaviour.
MaxReq == 2
\* Supersteps one execution may run before the engine stops it with a
\* recursion error (no recursionLimit is passed in the stream config, so
\* the engine's default applies; the model uses a small value).
RecursionLimit == 3

(* ------------------------------ values -------------------------------- *)
Reqs == 1..MaxReq

\* The HTTP body's threadId when the field is missing.
NoThreadId == "undefined"
ApiThread == "api-conversation"
MainThread == "main-conversation"
OtherThread == "t1"
ThreadIds == {ApiThread, MainThread, OtherThread}

\* A question: the JSON field may be missing; its text is a sequence of
\* characters.
Absent == [present |-> FALSE, isString |-> FALSE, text |-> <<>>]
Str(s) == [present |-> TRUE, isString |-> TRUE, text |-> s]
\* A truthy JSON value that is not a string (a number, an object).
NonString == [present |-> TRUE, isString |-> FALSE, text |-> <<>>]
HttpQuestions ==
    {Absent, NonString, Str(<<>>), Str(<<" ">>), Str(<<" ", "q">>)}
ExitLine == <<"e", "x", "i", "t">>
InputLines ==
    {<<>>, <<" ">>, <<" ", "q">>, ExitLine, <<"E", "x", "i", "t">>}
HttpThreadIds == {NoThreadId, OtherThread}

\* Tool calls the model may emit, and the answers it may give.
Call1 == [id |-> 1, args |-> "x"]
Call2 == [id |-> 2, args |-> "y"]
ModelResponses ==
    { [content |-> <<"a">>, tool_calls |-> <<>>],
      [content |-> <<"b">>, tool_calls |-> <<Call2, Call1>>] }
\* What the retriever tool returns: passages joined, or nothing found.
ToolOutputs == {<<"doc">>, <<>>}

(* ------------------------------ turns --------------------------------- *)
\* tid is the thread of the execution that produced the turn (history
\* variable of the model; the messages themselves do not carry it).
HumanMessage(content, t) ==
    [kind |-> "human", content |-> content, tool_calls |-> <<>>,
     tool_call_id |-> 0, tid |-> t]
AIMessage(resp, t) ==
    [kind |-> "ai", content |-> resp.content, tool_calls |-> resp.tool_calls,
     tool_call_id |-> 0, tid |-> t]
ToolMessage(content, id, t) ==
    [kind |-> "tool", content |-> content, tool_calls |-> <<>>,
     tool_call_id |-> id, tid |-> t]

(* --------------------------- pure functions --------------------------- *)
RECURSIVE TrimStart(_)
TrimStart(s) ==
    IF s = <<>> THEN s
    ELSE IF Head(s) = " " THEN TrimStart(Tail(s)) ELSE s

RECURSIVE TrimEnd(_)
TrimEnd(s) ==
    IF s = <<>> THEN s
    ELSE IF s[Len(s)] = " " THEN TrimEnd(SubSeq(s, 1, Len(s) - 1)) ELSE s

\* String.prototype.trim
Trim(s) == TrimEnd(TrimStart(s))

LowerChar(c) ==
    CASE c = "E" -> "e" [] c = "X" -> "x" [] c = "I" -> "i" [] c = "T" -> "t"
      [] OTHER -> c
\* String.prototype.toLowerCase
ToLowerCase(s) == [i \in 1..Len(s) |-> LowerChar(s[i])]

\* JavaScript truthiness of the question field: undefined and "" are falsy.
Truthy(q) == q.present /\ (q.isString => q.text # <<>>)

(* ------------------------------ state --------------------------------- *)
VARIABLES
    entry,        \* which program runs: "http" (chatbotapk.js), "cli" (the
                  \* interactive chatbots) or "simple" (the HTTP server
                  \* without a graph, chatbotapk2.js lines 1-91)
    env,          \* the environment: credential set, vector index present
    proc,         \* the process: "starting", "serving", "exited"
    exitCode,     \* its exit code once proc = "exited"
    checkpoints,  \* MemorySaver: thread id -> latest persisted turn sequence
    nreq,         \* number of requests / input lines submitted so far
    question,     \* r -> the question submitted
    thread,       \* r -> the thread id of its config
    pc,           \* r -> position of the request's execution
    state,        \* r -> the execution's messages channel
    finalAnswer,  \* r -> the aggregator's buffer
    trace,        \* r -> history: the nodes invoked, in order
    queries,      \* r -> history: the arguments tool.invoke was called with
    overlapped,   \* r -> history: another execution on its thread ran during it
    status,       \* r -> HTTP status sent (0: none)
    answer,       \* r -> the answer sent or returned
    rl            \* readline interface: "prompting", "busy", "closed", "none"

vars == <<entry, env, proc, exitCode, checkpoints, nreq, question, thread,
          pc, state, finalAnswer, trace, queries, overlapped, status, answer,
          rl>>

\* pc values: "new" (not submitted), "rejected" (400 sent), "threw"
\* (getAnswer rejected, 500 sent), "blank" (empty-question return),
\* "answered" (the server without a graph sent its answer),
\* "agent" / "action" (that node is next or in flight), "end" (END
\* reached), "failed" (a node raised), "limit" (stopped by the engine's
\* step limit), "killed" (the process restarted under it).
Running == {"agent", "action"}

(* ------------------------------ graph --------------------------------- *)
\* Variant of reducer: the arguments swapped (y.concat(x)).
reducerPrepends(x, y) == y \o x

\* channels.messages.reducer
reducer(x, y) == x \o y

\* channels.messages.default
ChannelDefault == <<>>

\* Variant of EntryPoint: the action node set as the entry.
EntryPointAction == "action"

\* workflow.setEntryPoint
EntryPoint == "agent"

\* Variant of ActionEdge: the action node leads to END.
ActionEdgeEnd == "END"

\* workflow.addEdge("action", "agent")
ActionEdge == "agent"

\* Variant of shouldContinue: any turn of the history with a tool call keeps
\* the loop going (messages.some(...) instead of the last message).
shouldContinueAnyTurn(messages) ==
    IF \E i \in 1..Len(messages) :
           messages[i].kind = "ai" /\ Len(messages[i].tool_calls) > 0
    THEN "continue" ELSE "end"

\* The router of addConditionalEdges("agent", ...).
shouldContinue(messages) ==
    LET lastMessage == messages[Len(messages)] IN
    IF ~(lastMessage.kind = "ai") \/ Len(lastMessage.tool_calls) = 0
    THEN "end" ELSE "continue"

\* { continue: "action", end: END }
RouteMap(r) == IF r = "continue" THEN "action" ELSE "END"

\* callModel: the update the agent node returns for the model's response.
callModel(messages, response, t) == <<AIMessage(response, t)>>

\* callToolNode reads lastMessage.tool_calls[0]; it raises a TypeError when
\* the last message carries no tool call.
CanCallTool(messages) ==
    /\ messages # <<>>
    /\ Len(messages[Len(messages)].tool_calls) > 0

\* Variant of callToolNode: tool_call_id read from a field the call does
\* not have (undefined, modelled as 0).
callToolNodeWrongId(messages, toolOutput, t) ==
    <<ToolMessage(toolOutput, 0, t)>>

\* tool.invoke(toolCall.args): the arguments the retrieval is called with.
ToolArgs(messages) == messages[Len(messages)].tool_calls[1].args

\* Variant of callToolNode: the last tool call is taken, not the first.
callToolNodeLastCall(messages, toolOutput, t) ==
    LET lastMessage == messages[Len(messages)]
        toolCall == lastMessage.tool_calls[Len(lastMessage.tool_calls)]
    IN  <<ToolMessage(toolOutput, toolCall.id, t)>>

\* callToolNode: the update the action node returns for the tool's output.
callToolNode(messages, toolOutput, t) ==
    LET lastMessage == messages[Len(messages)]
        toolCall == lastMessage.tool_calls[1]
    IN  <<ToolMessage(toolOutput, toolCall.id, t)>>

(* ---------------------------- checkpoints ----------------------------- *)
\* threadId = "api-conversation" default parameter of getAnswer.
ThreadOf(tid) == IF tid = NoThreadId THEN ApiThread ELSE tid

\* Variant of CheckpointKey: the thread id of the request is ignored.
CheckpointKeyShared(t) == ApiThread

\* config.configurable.thread_id: the key the checkpointer reads and writes.
CheckpointKey(t) == t

\* Variant of InitialState: the checkpoint is not loaded.
InitialStateFresh(t, input) == reducer(ChannelDefault, input)

\* The state an execution starts from: the thread's latest checkpoint (the
\* channel default when there is none) with the input applied.
InitialState(t, input) == reducer(checkpoints[CheckpointKey(t)], input)

\* MemorySaver.put of the snapshot after a step.
Put(cp, t, snapshot) == [cp EXCEPT ![CheckpointKey(t)] = snapshot]

(* ---------------------------- aggregator ------------------------------ *)
\* Variant of Aggregate: the chunk's node name is not looked at.
AggregateAnyNode(buffer, node, update) ==
    IF Len(update) > 0 /\ update[1].content # <<>>
    THEN buffer \o update[1].content
    ELSE buffer

\* The for-await body: key === "agent" && aiMessage.content -> append.
Aggregate(buffer, node, update) ==
    IF node = "agent" /\ Len(update) > 0
       /\ update[1].kind = "ai" /\ update[1].content # <<>>
    THEN buffer \o update[1].content
    ELSE buffer

\* if (!question) return res.status(400)
HandlerRejects(q) == ~Truthy(q)

\* Variant of IsEmptyQuestion: no trim.
IsEmptyQuestionNoTrim(q) == q.text = <<>>

\* if (!question.trim()) return ""
IsEmptyQuestion(q) == Trim(q.text) = <<>>

(* ------------------------------- Init --------------------------------- *)
Init ==
    /\ entry \in {"http", "cli", "simple"}
    /\ env \in [key : BOOLEAN, index : BOOLEAN]
    /\ proc = "starting"
    /\ exitCode = 0
    /\ checkpoints = [t \in ThreadIds |-> ChannelDefault]
    /\ nreq = 0
    /\ question = [r \in Reqs |-> Absent]
    /\ thread = [r \in Reqs |-> NoThreadId]
    /\ pc = [r \in Reqs |-> "new"]
    /\ state = [r \in Reqs |-> <<>>]
    /\ finalAnswer = [r \in Reqs |-> <<>>]
    /\ trace = [r \in Reqs |-> <<>>]
    /\ queries = [r \in Reqs |-> <<>>]
    /\ overlapped = [r \in Reqs |-> FALSE]
    /\ status = [r \in Reqs |-> 0]
    /\ answer = [r \in Reqs |-> <<>>]
    /\ rl = "none"

(* ------------------------------ startup ------------------------------- *)
\* What becomes of the process when the vector index is absent: the graph
\* programs catch the error of init() and call process.exit(1); the server
\* without a graph lets main() reject into .catch(console.error), which
\* logs, and the process ends with nothing left to run (code 0).
IndexMissingExit(e) == IF e = "simple" THEN 0 ELSE 1

\* main(): the credential check, the load of the index, then listen /
\* startChat.
Main ==
    /\ proc = "starting"
    /\ IF ~env.key
       THEN /\ proc' = "exited"
            /\ exitCode' = 1
            /\ rl' = rl
       ELSE IF ~env.index
       THEN /\ proc' = "exited"
            /\ exitCode' = IndexMissingExit(entry)
            /\ rl' = rl
       ELSE /\ proc' = "serving"
            /\ exitCode' = exitCode
            /\ rl' = IF entry = "cli" THEN "prompting" ELSE rl
    /\ UNCHANGED <<entry, env, checkpoints, nreq, question, thread, pc,
                   state, finalAnswer, trace, queries, overlapped, status,
                   answer>>

(* ------------------------------ actions ------------------------------- *)
\* app.stream({ messages: [inputMessage] }, config): load, apply the input,
\* write the input checkpoint, schedule the entry node.
StartExecution(r, q, t) ==
    LET s0 == InitialState(t, <<HumanMessage(q.text, t)>>) IN
    /\ thread' = [thread EXCEPT ![r] = t]
    /\ state' = [state EXCEPT ![r] = s0]
    /\ checkpoints' = Put(checkpoints, t, s0)
    /\ pc' = [pc EXCEPT ![r] = EntryPoint]
    /\ overlapped' =
         [k \in Reqs |->
            IF k = r
            THEN \E j \in Reqs : pc[j] \in Running /\ thread[j] = t
            ELSE overlapped[k] \/ (pc[k] \in Running /\ thread[k] = t)]

\* getAnswer / chat return: the HTTP handler sends 200 with the answer, the
\* interactive session prints it and prompts again.
Return(r, buffer) ==
    /\ answer' = [answer EXCEPT ![r] = buffer]
    /\ status' = [status EXCEPT ![r] = IF entry = "http" THEN 200 ELSE 0]
    /\ rl' = IF entry = "cli" THEN "prompting" ELSE rl

\* The handler's call of getAnswer(question, threadId), up to the first
\* await inside the graph.
GetAnswer(r, q, t) ==
    IF ~q.isString
    THEN \* question.trim is not a function: getAnswer rejects, catch -> 500
         /\ pc' = [pc EXCEPT ![r] = "threw"]
         /\ status' = [status EXCEPT ![r] = 500]
         /\ UNCHANGED <<checkpoints, thread, state, overlapped, answer>>
    ELSE IF IsEmptyQuestion(q)
    THEN /\ pc' = [pc EXCEPT ![r] = "blank"]
         /\ status' = [status EXCEPT ![r] = 200]
         /\ UNCHANGED <<checkpoints, thread, state, overlapped, answer>>
    ELSE /\ StartExecution(r, q, t)
         /\ UNCHANGED <<status, answer>>

\* app.post('/chat').
PostChat(q, tid) ==
    /\ entry = "http"
    /\ proc = "serving"
    /\ nreq < MaxReq
    /\ UNCHANGED <<env, proc, exitCode, queries>>
    /\ LET r == nreq + 1
           t == ThreadOf(tid)
       IN
       /\ nreq' = r
       /\ question' = [question EXCEPT ![r] = q]
       /\ UNCHANGED <<entry, finalAnswer, trace, rl>>
       /\ IF HandlerRejects(q)
          THEN /\ pc' = [pc EXCEPT ![r] = "rejected"]
               /\ status' = [status EXCEPT ![r] = 400]
               /\ UNCHANGED <<checkpoints, state, overlapped, answer, thread>>
          ELSE GetAnswer(r, q, t)

\* Variant of IsExit: the comparison is case-sensitive.
IsExitCaseSensitive(line) == line = ExitLine

\* userInput.toLowerCase() === "exit"
IsExit(line) == ToLowerCase(line) = ExitLine

\* The rl.question callback of askQuestion.
ReadLine(line) ==
    /\ entry = "cli"
    /\ proc = "serving"
    /\ rl = "prompting"
    /\ UNCHANGED <<env, queries>>
    /\ IF IsExit(line)
       THEN \* rl.close(): nothing is left to run and the process ends
            /\ rl' = "closed"
            /\ proc' = "exited"
            /\ exitCode' = 0
            /\ UNCHANGED <<entry, checkpoints, nreq, question, thread, pc,
                           state, finalAnswer, trace, overlapped, status,
                           answer>>
       ELSE /\ nreq < MaxReq
            /\ UNCHANGED <<proc, exitCode>>
            /\ LET r == nreq + 1
                   q == Str(line)
               IN
               /\ nreq' = r
               /\ question' = [question EXCEPT ![r] = q]
               /\ UNCHANGED <<entry, finalAnswer, trace, status, answer>>
               /\ IF IsEmptyQuestion(q)
                  THEN /\ pc' = [pc EXCEPT ![r] = "blank"]
                       /\ rl' = "prompting"
                       /\ UNCHANGED <<checkpoints, thread, state, overlapped>>
                  ELSE /\ StartExecution(r, q, MainThread)
                       /\ rl' = "busy"

\* Variant of OutOfSteps: the engine never stops an execution.
OutOfStepsNever(tr) == FALSE

\* The engine's step limit: after this many supersteps with a node still
\* to run, the stream raises a recursion error.
OutOfSteps(tr) == Len(tr) >= RecursionLimit

\* A node completed: merge its update, write the checkpoint, hand the chunk
\* to the consumer, pick the next node.
CompleteStep(r, node, update, next) ==
    LET s1 == reducer(state[r], update)
        buffer == Aggregate(finalAnswer[r], node, update)
        tr == Append(trace[r], node)
    IN
    /\ state' = [state EXCEPT ![r] = s1]
    /\ checkpoints' = Put(checkpoints, thread[r], s1)
    /\ trace' = [trace EXCEPT ![r] = tr]
    /\ finalAnswer' = [finalAnswer EXCEPT ![r] = buffer]
    /\ UNCHANGED <<entry, nreq, question, thread, overlapped>>
    /\ IF next = "END"
       THEN /\ pc' = [pc EXCEPT ![r] = "end"]
            /\ Return(r, buffer)
       ELSE IF OutOfSteps(tr)
       THEN \* the engine raises; the catch in getAnswer / chat swallows it
            /\ pc' = [pc EXCEPT ![r] = "limit"]
            /\ Return(r, IF entry = "http" THEN buffer ELSE <<>>)
       ELSE /\ pc' = [pc EXCEPT ![r] = next]
            /\ UNCHANGED <<status, answer, rl>>

\* Variant of FailStep: the error is turned into a turn and persisted.
FailStepAppends(r, node) ==
    LET s1 == reducer(state[r],
                      <<ToolMessage(<<"error">>, 0, thread[r])>>)
    IN
    /\ pc' = [pc EXCEPT ![r] = "failed"]
    /\ trace' = [trace EXCEPT ![r] = Append(trace[r], node)]
    /\ state' = [state EXCEPT ![r] = s1]
    /\ checkpoints' = Put(checkpoints, thread[r], s1)
    /\ Return(r, IF entry = "http" THEN finalAnswer[r] ELSE <<>>)
    /\ UNCHANGED <<entry, nreq, question, thread, finalAnswer, overlapped>>

\* Variant of FailStep: the catch returns an error text as the answer.
FailStepAnswersError(r, node) ==
    /\ pc' = [pc EXCEPT ![r] = "failed"]
    /\ trace' = [trace EXCEPT ![r] = Append(trace[r], node)]
    /\ Return(r, <<"error">>)
    /\ UNCHANGED <<entry, checkpoints, nreq, question, thread, state,
                   finalAnswer, overlapped>>

\* Variant of FailStep: the error escapes the session's callback and no
\* further prompt is issued.
FailStepEndsSession(r, node) ==
    /\ pc' = [pc EXCEPT ![r] = "failed"]
    /\ trace' = [trace EXCEPT ![r] = Append(trace[r], node)]
    /\ answer' = answer
    /\ status' = status
    /\ rl' = IF entry = "cli" THEN "closed" ELSE rl
    /\ UNCHANGED <<entry, checkpoints, nreq, question, thread, state,
                   finalAnswer, overlapped>>

\* A node raised: the stream rejects, the catch logs, nothing is written.
FailStep(r, node) ==
    /\ pc' = [pc EXCEPT ![r] = "failed"]
    /\ trace' = [trace EXCEPT ![r] = Append(trace[r], node)]
    /\ Return(r, IF entry = "http" THEN finalAnswer[r] ELSE <<>>)
    /\ UNCHANGED <<entry, checkpoints, nreq, question, thread, state,
                   finalAnswer, overlapped>>

AgentStep(r, response) ==
    /\ pc[r] = "agent"
    /\ UNCHANGED <<env, proc, exitCode, queries>>
    /\ LET update == callModel(state[r], response, thread[r]) IN
       CompleteStep(r, "agent", update,
                    RouteMap(shouldContinue(reducer(state[r], update))))

AgentFail(r) ==
    /\ pc[r] = "agent"
    /\ UNCHANGED <<env, proc, exitCode, queries>>
    /\ FailStep(r, "agent")

ActionStep(r, toolOutput) ==
    /\ pc[r] = "action"
    /\ CanCallTool(state[r])
    /\ queries' = [queries EXCEPT ![r] = Append(@, ToolArgs(state[r]))]
    /\ UNCHANGED <<env, proc, exitCode>>
    /\ CompleteStep(r, "action",
                    callToolNode(state[r], toolOutput, thread[r]), ActionEdge)

ActionFail(r) ==
    /\ pc[r] = "action"
    /\ queries' = IF CanCallTool(state[r])
                  THEN [queries EXCEPT ![r] = Append(@, ToolArgs(state[r]))]
                  ELSE queries
    /\ UNCHANGED <<env, proc, exitCode>>
    /\ FailStep(r, "action")

\* The server without a graph: app.post("/chat") and its getAnswer
\* (retrieve, then one model call; ok tells whether both succeeded).
PostChatSimple(q, ok) ==
    /\ entry = "simple"
    /\ proc = "serving"
    /\ nreq < MaxReq
    /\ LET r == nreq + 1 IN
       /\ nreq' = r
       /\ question' = [question EXCEPT ![r] = q]
       /\ IF HandlerRejects(q)
          THEN /\ pc' = [pc EXCEPT ![r] = "rejected"]
               /\ status' = [status EXCEPT ![r] = 400]
               /\ answer' = answer
          ELSE IF ~q.isString
          THEN /\ pc' = [pc EXCEPT ![r] = "threw"]
               /\ status' = [status EXCEPT ![r] = 500]
               /\ answer' = answer
          ELSE IF IsEmptyQuestion(q)
          THEN /\ pc' = [pc EXCEPT ![r] = "blank"]
               /\ status' = [status EXCEPT ![r] = 200]
               /\ answer' = answer
          ELSE IF ok
          THEN /\ pc' = [pc EXCEPT ![r] = "answered"]
               /\ status' = [status EXCEPT ![r] = 200]
               /\ answer' = [answer EXCEPT ![r] = <<"a">>]
          ELSE /\ pc' = [pc EXCEPT ![r] = "threw"]
               /\ status' = [status EXCEPT ![r] = 500]
               /\ answer' = answer
    /\ UNCHANGED <<entry, env, proc, exitCode, checkpoints, thread, state,
                   finalAnswer, trace, queries, overlapped, rl>>

\* The process is stopped and started again: the MemorySaver and every
\* execution in flight are gone; the interactive session prompts anew.
Restart ==
    /\ proc = "serving"
    /\ \E t \in ThreadIds : checkpoints[t] # ChannelDefault
    /\ UNCHANGED <<env, proc, exitCode, queries>>
    /\ checkpoints' = [t \in ThreadIds |-> ChannelDefault]
    /\ pc' = [r \in Reqs |-> IF pc[r] \in Running THEN "killed" ELSE pc[r]]
    /\ rl' = IF entry = "cli" THEN "prompting" ELSE rl
    /\ UNCHANGED <<entry, nreq, question, thread, state, finalAnswer, trace,
                   overlapped, status, answer>>

Next ==
    \/ Main
    \/ \E q \in HttpQuestions, tid \in HttpThreadIds : PostChat(q, tid)
    \/ \E q \in HttpQuestions, ok \in BOOLEAN : PostChatSimple(q, ok)
    \/ \E line \in InputLines : ReadLine(line)
    \/ \E r \in Reqs, response \in ModelResponses : AgentStep(r, response)
    \/ \E r \in Reqs : AgentFail(r)
    \/ \E r \in Reqs, toolOutput \in ToolOutputs : ActionStep(r, toolOutput)
    \/ \E r \in Reqs : ActionFail(r)
    \/ Restart

Spec == Init /\ [][Next]_vars

(* ------------------------- helper predicates -------------------------- *)
IsPrefix(s, t) == Len(s) <= Len(t) /\ SubSeq(t, 1, Len(s)) = s
IsStrictPrefix(s, t) == IsPrefix(s, t) /\ Len(s) < Len(t)
Last(s) == s[Len(s)]

\* An AI turn that requests no tool.
IsFinalAI(turn) == turn.kind = "ai" /\ Len(turn.tool_calls) = 0

\* The question is absent, empty or made of whitespace only.
Blank(q) ==
    \/ ~q.present
    \/ q.isString /\ \A i \in 1..Len(q.text) : q.text[i] = " "

\* In this step a node of r's execution completed.
SuccStep(r) ==
    /\ pc[r] \in Running
    /\ pc'[r] \in {"agent", "action", "end", "limit"}
    /\ Len(trace'[r]) = Len(trace[r]) + 1

\* In this step a node of r's execution raised.
NodeFailed(r) == pc[r] \in Running /\ pc'[r] = "failed"

\* In this step r's execution was started.
Started(r) == pc[r] = "new" /\ pc'[r] \in Running

\* Every non-empty prefix of every execution's turn sequence.
Histories ==
    UNION {{SubSeq(state[r], 1, n) : n \in 1..Len(state[r])} : r \in Reqs}

(* ------------------------------ claims -------------------------------- *)

\* C1: on every history whose latest turn is an AI turn without tool calls
\* the router selects "end", and two histories with the same latest turn
\* get the same result whatever their earlier turns are.
C1_RouterLatestTurnOnly ==
    /\ \A h \in Histories : IsFinalAI(Last(h)) => shouldContinue(h) = "end"
    /\ \A g \in Histories, h \in Histories :
          Last(g) = Last(h) => shouldContinue(g) = shouldContinue(h)

\* C1 witness: an execution reached END on a history whose earlier turns
\* include an AI turn with tool calls and its ToolResult.
C1_Witness ==
    \E r \in Reqs :
        /\ pc[r] = "end"
        /\ \E i \in 1..Len(state[r]) - 1 :
              state[r][i].kind = "ai" /\ Len(state[r][i].tool_calls) > 0

\* C2: every successful node step leaves the thread's persisted
\* turn sequence a strict prefix-extension of what it was before the step.
C2_PersistedAlwaysExtended ==
    [][\A r \in Reqs :
          SuccStep(r) =>
              IsStrictPrefix(checkpoints[thread[r]], checkpoints'[thread[r]])]_vars

\* What C2 leaves standing: every successful node step strictly
\* prefix-extends the execution's own turn sequence and persists exactly
\* that sequence; the thread's persisted sequence is strictly
\* prefix-extended by the step when no other execution on the thread
\* overlapped this one (see C15).
C2_StepExtends ==
    [][\A r \in Reqs :
          SuccStep(r) =>
              /\ IsStrictPrefix(state[r], state'[r])
              /\ checkpoints'[thread[r]] = state'[r]
              /\ ~overlapped[r] =>
                    IsStrictPrefix(checkpoints[thread[r]],
                                   checkpoints'[thread[r]])]_vars

\* A state where C2_StepExtends has acted: a second execution on a thread has completed a step on top
\* of the turns persisted by the first.
C2_Witness ==
    \E r \in Reqs, k \in Reqs :
        /\ k < r
        /\ thread[k] = thread[r]
        /\ pc[k] = "end"
        /\ ~overlapped[r]
        /\ Len(trace[r]) >= 2
        /\ IsStrictPrefix(state[k], state[r])
        /\ checkpoints[thread[r]] = state[r]

\* C3: in every persisted turn sequence each ToolResult turn is immediately
\* preceded by an AI turn one of whose tool calls has the ToolResult's
\* tool_call_id.
C3_ToolResultFollowsItsCall ==
    \A t \in ThreadIds :
        \A i \in 1..Len(checkpoints[t]) :
            checkpoints[t][i].kind = "tool" =>
                /\ i > 1
                /\ checkpoints[t][i - 1].kind = "ai"
                /\ \E j \in 1..Len(checkpoints[t][i - 1].tool_calls) :
                      checkpoints[t][i - 1].tool_calls[j].id =
                          checkpoints[t][i].tool_call_id

\* C3 witness: a persisted sequence holds a ToolResult turn.
C3_Witness ==
    \E t \in ThreadIds :
        \E i \in 1..Len(checkpoints[t]) : checkpoints[t][i].kind = "tool"

\* C4: the persisted turn sequence of a thread holds only turns produced
\* by executions on that thread, and its Human turns are questions
\* submitted on that thread.
C4_NoCrossThreadTurns ==
    \A t \in ThreadIds :
        \A i \in 1..Len(checkpoints[t]) :
            /\ checkpoints[t][i].tid = t
            /\ checkpoints[t][i].kind = "human" =>
                  \E r \in Reqs :
                      /\ thread[r] = t
                      /\ pc[r] \notin {"new", "rejected", "threw", "blank"}
                      /\ question[r].text = checkpoints[t][i].content

\* C4 witness: two executions with distinct thread ids are in flight at
\* once, each with a completed step persisted.
C4_Witness ==
    \E r \in Reqs, k \in Reqs :
        /\ thread[r] # thread[k]
        /\ pc[r] \in Running /\ pc[k] \in Running
        /\ trace[r] # <<>> /\ trace[k] # <<>>
        /\ checkpoints[thread[r]] = state[r]
        /\ checkpoints[thread[k]] = state[k]

\* C5: every POST /chat request whose question is absent, empty or
\* whitespace-only is answered with status 400.
C5_BlankQuestionGets400 ==
    \A r \in Reqs :
        (entry = "http" /\ pc[r] # "new" /\ Blank(question[r])) =>
            status[r] = 400

\* C6: submitting an absent, empty or whitespace-only question starts no
\* execution and leaves every persisted turn sequence unchanged; no node is
\* ever invoked for it.
C6_BlankQuestionNoEffect ==
    [][\A r \in Reqs :
          /\ (pc[r] = "new" /\ pc'[r] # "new" /\ Blank(question'[r])) =>
                /\ checkpoints' = checkpoints
                /\ pc'[r] \in {"rejected", "blank"}
                /\ state'[r] = <<>>
          /\ (pc[r] # "new" /\ Blank(question[r])) =>
                /\ pc'[r] = pc[r]
                /\ state'[r] = <<>>
                /\ trace'[r] = <<>>]_vars

\* C6 witness: a whitespace-only question was submitted while a thread had
\* turns persisted, and returned without an execution.
C6_Witness ==
    \E r \in Reqs :
        /\ pc[r] = "blank"
        /\ question[r].text # <<>>
        /\ \E t \in ThreadIds : checkpoints[t] # <<>>

\* C7: every POST /chat request whose graph execution failed in a node is
\* answered with status 500.
C7_FailedExecutionGets500 ==
    \A r \in Reqs : (entry = "http" /\ pc[r] = "failed") => status[r] = 500

C9_FailureHaltsAndWritesNothing ==
    [][\A r \in Reqs :
          /\ NodeFailed(r) =>
                /\ checkpoints' = checkpoints
                /\ state'[r] = state[r]
                /\ ~overlapped[r] => checkpoints'[thread[r]] = state[r]
          /\ pc[r] = "failed" =>
                /\ pc'[r] = "failed"
                /\ state'[r] = state[r]
                /\ trace'[r] = trace[r]]_vars

\* C9 witness: an action node failed after the agent step before it had
\* been persisted.
C9_Witness ==
    \E r \in Reqs :
        /\ pc[r] = "failed"
        /\ trace[r] = <<"agent", "action">>
        /\ checkpoints[thread[r]] = state[r]
        /\ Last(state[r]).kind = "ai"

\* C10: the first node an execution invokes is the agent node, and an
\* execution is at END only when its latest turn is an AI turn without
\* tool calls.
C10_StartsAtAgentEndsOnFinalAI ==
    \A r \in Reqs :
        /\ (pc[r] \in Running /\ trace[r] = <<>>) => pc[r] = "agent"
        /\ trace[r] # <<>> => trace[r][1] = "agent"
        /\ pc[r] = "end" => (state[r] # <<>> /\ IsFinalAI(Last(state[r])))

\* C10 witness: an execution reached END after a tool round trip.
C10_Witness ==
    \E r \in Reqs : pc[r] = "end" /\ trace[r] = <<"agent", "action", "agent">>

(* ----------------------- helpers for C11..C20 ------------------------- *)
\* The number of node steps of r's execution that completed.
Steps(r) == IF pc[r] = "failed" THEN Len(trace[r]) - 1 ELSE Len(trace[r])

\* The turns r's own node steps appended, in order.
OwnTurns(r) ==
    SubSeq(state[r], Len(state[r]) - Steps(r) + 1, Len(state[r]))

\* agent, action, agent, action, ...
Alternating(tr) ==
    \A i \in 1..Len(tr) : tr[i] = IF i % 2 = 1 THEN "agent" ELSE "action"

\* How often the node was invoked.
Invocations(tr, node) == Cardinality({i \in 1..Len(tr) : tr[i] = node})

\* How many turns of the sequence are AI turns requesting a tool.
ToolRequests(turns) ==
    Cardinality({i \in 1..Len(turns) :
                    turns[i].kind = "ai" /\ Len(turns[i].tool_calls) > 0})

\* The contents of the AI turns of a sequence, concatenated in order.
RECURSIVE AgentContent(_)
AgentContent(turns) ==
    IF turns = <<>> THEN <<>>
    ELSE (IF Head(turns).kind = "ai" THEN Head(turns).content ELSE <<>>)
         \o AgentContent(Tail(turns))

\* C11: the nodes of an execution run strictly alternating from agent on,
\* and an execution that reached END after the model requested retrieval
\* on its first k agent steps ran k action steps and 2k+1 steps in all.
C11_AlternatingSteps ==
    \A r \in Reqs :
        /\ Alternating(trace[r])
        /\ pc[r] = "end" =>
              /\ Invocations(trace[r], "action") = ToolRequests(OwnTurns(r))
              /\ Len(trace[r]) = 2 * ToolRequests(OwnTurns(r)) + 1

\* C11 witness: one execution ended with k = 0 (one agent step, no action
\* step) and another with k = 1 (agent, action, agent).
C11_Witness ==
    \E r \in Reqs, k \in Reqs :
        /\ pc[r] = "end" /\ trace[r] = <<"agent">>
        /\ pc[k] = "end" /\ Len(trace[k]) = 3
        /\ ToolRequests(OwnTurns(k)) = 1

\* C12: the number of steps of an execution is bounded by the engine's
\* step limit, and an execution that has used all of them has halted, also
\* when the model requests a tool call at every agent step.
C12_FiniteSteps ==
    \A r \in Reqs :
        /\ Len(trace[r]) <= RecursionLimit
        /\ Len(trace[r]) = RecursionLimit => pc[r] \notin Running

\* C12 witness: an execution in which every agent step requested a tool
\* call was stopped by the engine.
C12_Witness ==
    \E r \in Reqs :
        /\ pc[r] = "limit"
        /\ \A i \in 1..Len(OwnTurns(r)) :
              OwnTurns(r)[i].kind = "ai" =>
                  Len(OwnTurns(r)[i].tool_calls) > 0

\* C13: a process started without a required credential or without the
\* vector index exits with code 1 and has accepted no question.
C13_StartupFailureExits1 ==
    (proc # "starting" /\ (~env.key \/ ~env.index)) =>
        /\ proc = "exited"
        /\ exitCode = 1
        /\ nreq = 0

\* C14: in the interactive session the input "exit" (in any letter case)
\* is never run as a question, closes the reader without starting an
\* execution, and once the reader is closed nothing is prompted, started
\* or appended any more.
C14_ExitEndsSession ==
    [][/\ \A r \in Reqs :
            (entry = "cli" /\ pc'[r] # "new") =>
                ToLowerCase(question'[r].text) # ExitLine
       /\ (rl = "prompting" /\ rl' = "closed") =>
             /\ nreq' = nreq
             /\ pc' = pc
             /\ state' = state
             /\ checkpoints' = checkpoints
       /\ rl = "closed" =>
             /\ rl' = "closed"
             /\ nreq' = nreq
             /\ pc' = pc
             /\ checkpoints' = checkpoints]_vars

\* C14 witness: the session was ended by "exit" after a conversation.
C14_Witness ==
    /\ rl = "closed"
    /\ nreq > 0
    /\ checkpoints[MainThread] # <<>>

\* C15: no two executions on one thread id are in flight at the same time.
C15_OneInFlightPerThread ==
    \A r \in Reqs, k \in Reqs :
        (r # k /\ pc[r] \in Running /\ pc[k] \in Running) =>
            thread[r] # thread[k]

\* The elements of a sequence.
Range(s) == {s[i] : i \in 1..Len(s)}

\* C16: the answer of an execution that reached END without a failure is
\* the concatenation, in emission order, of the content of every AI turn
\* its agent steps emitted, those carrying tool calls included, and holds
\* no content of a ToolResult turn.
C16_AnswerIsAgentContent ==
    \A r \in Reqs :
        pc[r] = "end" =>
            /\ answer[r] = AgentContent(OwnTurns(r))
            /\ "doc" \notin Range(answer[r])

\* C16 witness: an answer made of the content of an AI turn with tool
\* calls followed by that of the final AI turn, the retrieval between them
\* having returned a non-empty document.
C16_Witness ==
    \E r \in Reqs :
        /\ pc[r] = "end"
        /\ Len(OwnTurns(r)) = 3
        /\ Len(OwnTurns(r)[1].tool_calls) > 0
        /\ OwnTurns(r)[1].content # <<>>
        /\ OwnTurns(r)[2].kind = "tool"
        /\ OwnTurns(r)[2].content = <<"doc">>
        /\ answer[r] = <<"b", "a">>

\* C17: getAnswer returns the accumulated buffer when the stream ends at
\* END, and the empty string when no agent content was emitted, as when
\* the first agent step fails.
C17_BufferOrEmpty ==
    \A r \in Reqs :
        entry = "http" =>
            /\ pc[r] = "end" =>
                  answer[r] = finalAnswer[r] /\ status[r] = 200
            /\ (pc[r] \in {"end", "failed", "limit"}
                /\ AgentContent(OwnTurns(r)) = <<>>) =>
                  answer[r] = <<>> /\ status[r] = 200
            /\ (pc[r] = "failed" /\ trace[r] = <<"agent">>) =>
                  answer[r] = <<>>

\* C17 witness: one request whose first agent step failed and one that
\* ended with a non-empty buffer.
C17_Witness ==
    /\ entry = "http"
    /\ \E r \in Reqs :
          pc[r] = "failed" /\ trace[r] = <<"agent">> /\ status[r] = 200
    /\ \E r \in Reqs : pc[r] = "end" /\ answer[r] # <<>>

\* C18: every ToolResult turn directly follows an AI turn carrying tool
\* calls, answers the first of them and is followed by no further
\* ToolResult turn; every action step queried the retriever once, with the
\* arguments of the first call of the AI turn before it.
C18_OnlyFirstToolCall ==
    \A r \in Reqs :
        /\ \A i \in 1..Len(state[r]) :
              state[r][i].kind = "tool" =>
                  /\ i > 1
                  /\ state[r][i-1].kind = "ai"
                  /\ Len(state[r][i-1].tool_calls) > 0
                  /\ state[r][i].tool_call_id = state[r][i-1].tool_calls[1].id
                  /\ i < Len(state[r]) => state[r][i+1].kind # "tool"
        /\ Len(queries[r]) = Invocations(trace[r], "action")
        /\ \A j \in 1..Len(queries[r]) :
              queries[r][j] = OwnTurns(r)[2*j - 1].tool_calls[1].args

\* C18 witness: an action step completed after an AI turn with two tool
\* calls; one retrieval was made and one ToolResult appended.
C18_Witness ==
    \E r \in Reqs :
        /\ Len(OwnTurns(r)) >= 2
        /\ OwnTurns(r)[1].tool_calls = <<Call2, Call1>>
        /\ OwnTurns(r)[2].kind = "tool"
        /\ OwnTurns(r)[2].tool_call_id = Call2.id
        /\ queries[r] = <<Call2.args>>
        /\ pc[r] = "agent"

MaxHist == 3

\* One turn of each kind the router can be handed.
RouterTurns ==
    {HumanMessage(<<"q">>, ApiThread),
     ToolMessage(<<"doc">>, Call2.id, ApiThread)}
    \cup {AIMessage(resp, ApiThread) : resp \in ModelResponses}

\* Every turn sequence of one to MaxHist turns.
RouterHistories == UNION {[1..n -> RouterTurns] : n \in 1..MaxHist}

\* Execution 1 stands at the conditional edge with an arbitrary sequence.
RouterInit ==
    /\ entry = "http"
    /\ env = [key |-> TRUE, index |-> TRUE]
    /\ proc = "serving"
    /\ exitCode = 0
    /\ checkpoints = [t \in ThreadIds |-> ChannelDefault]
    /\ nreq = 1
    /\ question = [r \in Reqs |-> IF r = 1 THEN Str(<<"q">>) ELSE Absent]
    /\ thread = [r \in Reqs |-> IF r = 1 THEN ApiThread ELSE NoThreadId]
    /\ pc = [r \in Reqs |-> IF r = 1 THEN "routing" ELSE "new"]
    /\ state \in {[r \in Reqs |-> IF r = 1 THEN h ELSE <<>>] :
                     h \in RouterHistories}
    /\ finalAnswer = [r \in Reqs |-> <<>>]
    /\ trace = [r \in Reqs |-> <<>>]
    /\ queries = [r \in Reqs |-> <<>>]
    /\ overlapped = [r \in Reqs |-> FALSE]
    /\ status = [r \in Reqs |-> 0]
    /\ answer = [r \in Reqs |-> <<>>]
    /\ rl = "none"

\* The conditional edge: shouldContinue is called on the state and its
\* result looked up in the edge map.
Route ==
    /\ pc[1] = "routing"
    /\ pc' = [pc EXCEPT ![1] = RouteMap(shouldContinue(state[1]))]
    /\ UNCHANGED <<entry, env, proc, exitCode, checkpoints, nreq, question,
                   thread, state, finalAnswer, trace, queries, overlapped,
                   status, answer, rl>>

RouterNext == Route

RouterSpec == RouterInit /\ [][RouterNext]_vars

C21_StartsFromPersisted ==
    [][/\ \A r \in Reqs :
            Started(r) =>
                LET t == thread'[r]
                    h == HumanMessage(question'[r].text, t)
                IN
                /\ state'[r] = checkpoints[t] \o <<h>>
                /\ checkpoints'[t] = state'[r]
                /\ (\A k \in Reqs : k # r => thread[k] # t) =>
                       state'[r] = <<h>>
       /\ \A t \in ThreadIds :
            checkpoints'[t] # checkpoints[t] =>
                \/ \E r \in Reqs :
                      /\ thread'[r] = t
                      /\ Started(r) \/ SuccStep(r)
                      /\ checkpoints'[t] = state'[r]
                \/ checkpoints' = [u \in ThreadIds |-> ChannelDefault]]_vars

\* C21 witness: the first execution on a thread started from its question
\* alone and ended; a second one has just started from the sequence the
\* first persisted, followed by its own Human turn.
C21_Witness ==
    \E r \in Reqs, k \in Reqs :
        /\ k < r
        /\ thread[k] = thread[r]
        /\ pc[k] = "end"
        /\ Len(state[k]) = Len(trace[k]) + 1
        /\ pc[r] = "agent"
        /\ trace[r] = <<>>
        /\ state[r] = state[k] \o <<HumanMessage(question[r].text, thread[r])>>

\* C22: the ToolResult turn of a retrieval that returned no passages holds
\* an explicit "no results" marker: no ToolResult turn has empty content.
C22_NoResultsMarker ==
    \A r \in Reqs :
        \A i \in 1..Len(state[r]) :
            state[r][i].kind = "tool" => state[r][i].content # <<>>

\* C23: in every persisted turn sequence an AI turn that carries tool
\* calls is the last turn or is directly followed by the ToolResult turn
\* of its first call (stated for the behaviours in which no two executions
\* on one thread overlapped, where C15 plays no part).
C23_ToolCallsAnswered ==
    (\A r \in Reqs : ~overlapped[r]) =>
    \A t \in ThreadIds :
        \A i \in 1..Len(checkpoints[t]) :
            (checkpoints[t][i].kind = "ai"
             /\ Len(checkpoints[t][i].tool_calls) > 0
             /\ i < Len(checkpoints[t])) =>
                /\ checkpoints[t][i+1].kind = "tool"
                /\ checkpoints[t][i+1].tool_call_id =
                       checkpoints[t][i].tool_calls[1].id

\* C24: every request that omits threadId runs on "api-conversation", and
\* the sequence a later such request works on extends the sequence of
\* every earlier such request that has ended.
C24_DefaultThreadShared ==
    \A r \in Reqs, k \in Reqs :
        ( /\ entry = "http"
          /\ k < r
          /\ thread[k] = ApiThread /\ thread[r] = ApiThread
          /\ pc[k] = "end"
          /\ pc[r] \in Running \cup {"end", "failed", "limit"} )
        => IsPrefix(state[k], state[r])

(* ---------------------- the interactive session ----------------------- *)
CliInit == Init /\ entry = "cli"

CliNext ==
    \/ Main
    \/ \E line \in InputLines : ReadLine(line)
    \/ \E r \in Reqs, response \in ModelResponses : AgentStep(r, response)
    \/ \E r \in Reqs : AgentFail(r)
    \/ \E r \in Reqs, toolOutput \in ToolOutputs : ActionStep(r, toolOutput)
    \/ \E r \in Reqs : ActionFail(r)
    \/ Restart

\* The awaited call of the node r's execution stands at settles: it
\* resolves or it rejects.
Settles(r) ==
    \/ \E response \in ModelResponses : AgentStep(r, response)
    \/ AgentFail(r)
    \/ \E toolOutput \in ToolOutputs : ActionStep(r, toolOutput)
    \/ ActionFail(r)

\* The interactive session, every awaited remote call settling.
CliSpec ==
    /\ CliInit
    /\ [][CliNext]_vars
    /\ \A r \in Reqs : WF_vars(Settles(r))

\* The executions in flight.
InFlight == {r \in Reqs : pc[r] \in Running}

\* C25: in the interactive session the reader is busy exactly while one
\* execution is in flight on "main-conversation", never two; a session
\* that has no execution in flight and was not ended by "exit" is
\* prompting, also after a failed execution; and every busy session
\* eventually prompts again.
C25_PromptsAgain ==
    /\ [](/\ Cardinality(InFlight) <= 1
          /\ \A r \in InFlight : thread[r] = MainThread
          /\ rl = "busy" <=> InFlight # {}
          /\ (proc = "serving" /\ InFlight = {}) => rl = "prompting"
          /\ rl = "closed" => proc = "exited" /\ exitCode = 0)
    /\ (rl = "busy" ~> rl = "prompting")

\* C25 witness: after an execution failed, the next input was read and its
\* execution is in flight.
C25_Witness ==
    /\ entry = "cli"
    /\ rl = "busy"
    /\ \E r \in Reqs, k \in Reqs :
          k < r /\ pc[k] = "failed" /\ pc[r] \in Running

====
